---- MODULE Spec2Model ----
(***************************************************************************)
(* A model of ivybuildtools.IvyBuildTools: the resolver that turns a       *)
(* Pipfile, the README.md of the working directory and the output of two   *)
(* git commands into the keyword arguments of setuptools.setup().          *)
(*                                                                         *)
(* Python strings are sequences of one-character strings, so that split,   *)
(* strip, slicing, concatenation and the "in" test are computed as Python  *)
(* computes them.  Python values are tagged records ([t |-> "str", ...],   *)
(* [t |-> "None"], ...), a call's outcome is a record that either returns  *)
(* a value or raises an exception with its __cause__ chain, together with  *)
(* the external commands it ran and the warnings it printed.               *)
(***************************************************************************)
EXTENDS Naturals, Sequences, FiniteSets

VARIABLES
    Pipfile,        \* the Pipfile of the working directory, as Pipfile.find()/toml.load() see it
    README,         \* README.md of the working directory
    git_describe,   \* what `git describe --tags --long --dirty` does now
    git_branch,     \* what `git rev-parse --abbrev-ref HEAD` does now
    self,           \* the IvyBuildTools instance, if one was constructed
    result,         \* outcome of the last operation the caller ran
    current         \* history: no change of README or git state since `result` was produced

vars == <<Pipfile, README, git_describe, git_branch, self, result, current>>

----------------------------------------------------------------------------
(* Bounds of the model *)

\* longest dependency list of a [packages] section
MaxDeps == 2
\* most hyphen-separated parts in a git describe output
MaxParts == 5

----------------------------------------------------------------------------
(* String literals *)

s_master == <<"m","a","s","t","e","r">>
s_main == <<"m","a","i","n">>
s_feature_x == <<"f","e","a","t","u","r","e","-","x">>
s_tag == <<"v","1",".","2",".","3">>
s_gsha == <<"g","a","b","c","d","e","f","1">>
s_dirty == <<"d","i","r","t","y">>
s_rc1 == <<"r","c","1">>
s_ge == <<">","=">>
s_lt4 == <<",", " ", "<", "4">>
s_default_requires == <<">","=","3",".","7",","," ","<","4">>
s_True == <<"T","r","u","e">>
s_False == <<"F","a","l","s","e">>
s_ivybuildtools == <<"i","v","y","b","u","i","l","d","t","o","o","l","s">>
s_text_markdown == <<"t","e","x","t","/","m","a","r","k","d","o","w","n">>

----------------------------------------------------------------------------
(* Python values and outcomes *)

StrV(s) == [t |-> "str", v |-> s]
ListV(l) == [t |-> "list", v |-> l]
DictV(d) == [t |-> "dict", v |-> d]
None == [t |-> "None"]

NoCause == [type |-> "None"]
Exc(type, msg, cause) == [type |-> type, msg |-> msg, cause |-> cause]

Return(v, calls, warnings) ==
    [status |-> "return", value |-> v, exc |-> NoCause, calls |-> calls, warnings |-> warnings]
Raise(e, calls, warnings) ==
    [status |-> "raise", value |-> None, exc |-> e, calls |-> calls, warnings |-> warnings]

\* bool(v) for the values a TOML document holds
truthy(v) ==
    CASE v.t = "None" -> FALSE
      [] v.t = "str" -> Len(v.v) > 0
      [] v.t = "bool" -> v.v
      [] OTHER -> TRUE

\* d[key] on a mapping (a function on the keys present) or on None
getitem(d, key) ==
    IF d.t = "None"
    THEN Raise(Exc("TypeError", "'NoneType' object is not subscriptable", NoCause), <<>>, <<>>)
    ELSE IF key \in DOMAIN d.v
         THEN Return(d.v[key], <<>>, <<>>)
         ELSE Raise(Exc("KeyError", key, NoCause), <<>>, <<>>)

----------------------------------------------------------------------------
(* str methods *)

Whitespace == {" ", "\n", "\t", "\r"}

RECURSIVE lstrip(_)
lstrip(s) == IF s # <<>> /\ Head(s) \in Whitespace THEN lstrip(Tail(s)) ELSE s

RECURSIVE rstrip(_)
rstrip(s) ==
    IF s # <<>> /\ s[Len(s)] \in Whitespace THEN rstrip(SubSeq(s, 1, Len(s) - 1)) ELSE s

strip(s) == rstrip(lstrip(s))

\* s.split(sep) for a one-character separator
RECURSIVE split(_, _)
split(s, sep) ==
    IF \A i \in 1..Len(s) : s[i] # sep
    THEN <<s>>
    ELSE LET i == CHOOSE k \in 1..Len(s) : s[k] = sep /\ \A j \in 1..(k - 1) : s[j] # sep
         IN  <<SubSeq(s, 1, i - 1)>> \o split(SubSeq(s, i + 1, Len(s)), sep)

\* c in s, for a one-character c
contains(s, c) == \E i \in 1..Len(s) : s[i] = c

\* s[1:]
slice_from_1(s) == IF s = <<>> THEN <<>> ELSE Tail(s)

\* fmt.format(**kw): a template is a sequence of replacement-field names
RECURSIVE format(_, _)
format(fmt, kw) == IF fmt = <<>> THEN <<>> ELSE kw[Head(fmt)] \o format(Tail(fmt), kw)

----------------------------------------------------------------------------
(* The environment: what the files and the git commands can be *)

gitver_command == "git describe --tags --long --dirty"
gitbranch_command == "git rev-parse --abbrev-ref HEAD"
open_readme == "open README.md"

RECURSIVE join(_, _)
join(parts, sep) ==
    IF Len(parts) = 0 THEN <<>>
    ELSE IF Len(parts) = 1 THEN parts[1]
    ELSE parts[1] \o <<sep>> \o join(Tail(parts), sep)

\* <tag>-<count>-g<sha>[-dirty], where the tag itself may hold hyphens (v1.2.3-rc1)
DescribeParts ==
    { <<s_tag>> \o [i \in 1..k |-> s_rc1] \o <<<<"2">>, s_gsha>> \o (IF d THEN <<s_dirty>> ELSE <<>>) :
        k \in 0..(MaxParts - 3), d \in BOOLEAN }
        \cup { <<s_tag, <<"0">>, s_gsha>> }

\* the command prints one line; a wrapper that prints less than the long form is covered too
DescribeOutputs ==
    { join(p, "-") \o <<"\n">> : p \in { q \in DescribeParts : Len(q) <= MaxParts } }
        \cup { s_tag \o <<"\n">>, <<"\n">> }

CalledProcessError == [ok |-> FALSE, out |-> <<>>]
Completed(out) == [ok |-> TRUE, out |-> out]

DescribeResults == { Completed(o) : o \in DescribeOutputs } \cup { CalledProcessError }
Branches == { s_master, s_main, s_feature_x }
BranchResults == { Completed(b \o <<"\n">>) : b \in Branches } \cup { CalledProcessError }

s_readme_text == <<"#", " ", "i", "v", "y", "\n">>
ReadmeStates ==
    { [state |-> "missing", text |-> <<>>],
      [state |-> "unreadable", text |-> <<>>],
      [state |-> "present", text |-> s_readme_text] }

\* what find_packages() finds in the working directory
FoundPackages == { <<s_ivybuildtools>> }

(* The Pipfile: a TOML document is a mapping defined on the keys present *)

MetaKeys == {"name", "description", "author", "url"}
MetaValue(k) ==
    CASE k = "name" -> StrV(s_ivybuildtools)
      [] k = "description" -> StrV(<<"d", "e", "s", "c">>)
      [] k = "author" -> StrV(<<"i", "v", "y">>)
      [] k = "url" -> StrV(<<"h", "t", "t", "p", ":", "/", "/", "x">>)

Absent == [t |-> "absent"]

VersionOpts == { Absent, StrV(<<>>), StrV(<<"0", ".", "1", ".", "0">>) }

PackageSection(keys, ver) ==
    DictV([k \in keys \cup (IF ver = Absent THEN {} ELSE {"version"}) |->
             IF k = "version" THEN ver ELSE MetaValue(k)])

PackageOpts ==
    { PackageSection(keys, Absent) : keys \in SUBSET MetaKeys }
        \cup { PackageSection(MetaKeys, ver) : ver \in VersionOpts }
        \cup { Absent }
BasePackage == PackageSection(MetaKeys, Absent)

RequiresOpts ==
    { Absent, DictV(<<>>), DictV([k \in {"python_version"} |-> StrV(<<"3", ".", "8">>)]) }
BaseRequires == DictV([k \in {"python_version"} |-> StrV(<<"3", ".", "8">>)])

Dependencies ==
    { [pkg |-> <<"t", "o", "m", "l">>, ver |-> <<"*">>],
      [pkg |-> <<"s", "i", "x">>, ver |-> <<">", "=", "1", ".", "0">>],
      [pkg |-> <<"p", "i", "p">>, ver |-> <<"=", "=", "2", "0", ".", "*">>] }

RECURSIVE DependencyLists(_)
DependencyLists(n) ==
    IF n = 0 THEN { <<>> }
    ELSE LET shorter == DependencyLists(n - 1)
         IN  shorter \cup
             { Append(l, d) : l \in { m \in shorter : Len(m) = n - 1 }, d \in Dependencies }

\* a TOML table has each key once; its order is the order of the file
Table(l) == \A i, j \in 1..Len(l) : l[i].pkg = l[j].pkg => i = j

PackagesOpts ==
    { [t |-> "table", v |-> l] : l \in { m \in DependencyLists(MaxDeps) : Table(m) } }
        \cup { Absent }
BasePackages ==
    [t |-> "table", v |-> << [pkg |-> <<"t", "o", "m", "l">>, ver |-> <<"*">>] >>]

TomlDocument(package, requires, packages) ==
    LET section == [k \in {"package", "requires", "packages"} |->
                      CASE k = "package" -> package
                        [] k = "requires" -> requires
                        [] k = "packages" -> packages]
    IN  DictV([k \in { x \in DOMAIN section : section[x] # Absent } |-> section[k]])

\* the documents that differ in one section from the complete one
TomlDocuments ==
    { TomlDocument(p, BaseRequires, BasePackages) : p \in PackageOpts }
        \cup { TomlDocument(BasePackage, r, BasePackages) : r \in RequiresOpts }
        \cup { TomlDocument(BasePackage, BaseRequires, d) : d \in PackagesOpts }

PipfileStates ==
    { [state |-> "missing", doc |-> None], [state |-> "unparsable", doc |-> None] }
        \cup { [state |-> "ok", doc |-> d] : d \in TomlDocuments }

----------------------------------------------------------------------------
(* class IvyBuildTools *)

\* the class attributes: _pipfile = None, _package_meta = None
NoInstance == [exists |-> FALSE, _pipfile |-> None, _package_meta |-> None]

\* Pipfile.find() followed by toml.load(f)
load_pipfile ==
    CASE Pipfile.state = "missing" ->
            Raise(Exc("RuntimeError", "No Pipfile found!", NoCause), <<>>, <<>>)
      [] Pipfile.state = "unparsable" ->
            Raise(Exc("TomlDecodeError", "invalid TOML", NoCause), <<>>, <<>>)
      [] OTHER -> Return(Pipfile.doc, <<>>, <<>>)

\* IvyBuildTools(): the instance it yields, or the exception it raises
new_IvyBuildTools ==
    LET loaded == load_pipfile
        meta == IF loaded.status = "raise" THEN loaded ELSE getitem(loaded.value, "package")
    IN  IF meta.status = "raise"
        THEN Raise(Exc("FileNotFoundError",
                       "IvyBuildTools requires a valid Pipfile to generate a setup.py. Cannot continue.",
                       meta.exc), <<>>, <<>>)
        ELSE Return([exists |-> TRUE, _pipfile |-> loaded.value, _package_meta |-> meta.value],
                    <<>>, <<>>)

\* mutant: the [package] section is validated as a whole, a missing name fails every lookup
_get_package_meta_validating(slf, key, failure_msg, default, required) ==
    LET got == getitem(slf._package_meta, IF "name" \in DOMAIN slf._package_meta.v THEN key ELSE "name")
    IN  IF got.status = "raise" /\ got.exc.type = "KeyError"
        THEN Raise(Exc("Exception", failure_msg, got.exc), <<>>, <<>>)
        ELSE got

_get_package_meta(slf, key, failure_msg, default, required) ==
    LET got == getitem(slf._package_meta, key)
    IN  IF got.status = "raise" /\ got.exc.type = "KeyError"
        THEN IF required
             THEN Raise(Exc("Exception", failure_msg, got.exc), <<>>, <<>>)
             ELSE Return(StrV(default), <<>>, <<"package meta">>)
        ELSE got

name(slf) ==
    _get_package_meta(slf, "name", "No package name specified in Pipfile. Cannot continue.",
                      <<>>, TRUE)

description(slf) ==
    _get_package_meta(slf, "description", "No description specified in Pipfile. Cannot continue.",
                      <<>>, TRUE)

author(slf) ==
    _get_package_meta(slf, "author", "No author specified in Pipfile. Cannot continue.",
                      <<>>, TRUE)

url(slf) ==
    _get_package_meta(slf, "url", "No URL specified in Pipfile. Cannot continue.", <<>>, TRUE)

\* open("README.md", encoding="utf-8") and f.read(); only FileNotFoundError is caught
long_description(slf) ==
    CASE README.state = "present" -> Return(StrV(README.text), <<open_readme>>, <<>>)
      [] README.state = "missing" -> Return(None, <<open_readme>>, <<"README.md">>)
      [] OTHER ->
            Raise(Exc("PermissionError", "README.md", NoCause), <<open_readme>>, <<>>)

\* check_output(cmd.split()).decode("utf-8") on the ASCII text the command prints
check_output(cmd) ==
    LET run == IF cmd = gitver_command THEN git_describe ELSE git_branch
    IN  IF run.ok
        THEN Return(StrV(run.out), <<cmd>>, <<>>)
        ELSE Raise(Exc("CalledProcessError", cmd, NoCause), <<cmd>>, <<>>)

DefaultFmt == <<"tag", "branchcommit">>

\* mutant: only too few parts are refused
parts_parse_at_least_3(parts) == Len(parts) >= 3

\* assert len(parts) in (3, 4), with assertions enabled (the interpreter's default)
parts_parse(parts) == Len(parts) \in {3, 4}

\* mutant: the g of the abbreviated hash is kept
strip_sha_prefix_kept(sha) == sha

\* sha = sha[1:]
strip_sha_prefix(sha) == slice_from_1(sha)

\* mutant: the primary branch is taken to be main
branchcommit_of_main(branch, sha) ==
    IF branch = s_main THEN <<>> ELSE <<"-">> \o branch \o <<"-">> \o sha

\* "" if branch == "master" else "-{}-{}".format(branch, sha)
branchcommit_of(branch, sha) ==
    IF branch = s_master THEN <<>> ELSE <<"-">> \o branch \o <<"-">> \o sha

generate_version(fmt) ==
    LET gitver == check_output(gitver_command)
        gitbranch == check_output(gitbranch_command)
    IN  IF gitver.status = "raise"
        THEN Raise(Exc("Exception", "No git tags found", gitver.exc), gitver.calls, <<>>)
        ELSE IF gitbranch.status = "raise"
        THEN Raise(Exc("Exception", "Unable to find git branch name", gitbranch.exc),
                   gitver.calls \o gitbranch.calls, <<>>)
        ELSE
        LET ver == strip(gitver.value.v)
            branch == strip(gitbranch.value.v)
            parts == split(ver, "-")
        IN  IF ~parts_parse(parts)
            THEN Raise(Exc("AssertionError", "Cannot parse git tags", NoCause),
                       gitver.calls \o gitbranch.calls, <<>>)
            ELSE
            LET dirty == Len(parts) = 4
                tag == parts[1]
                count == parts[2]
                sha == strip_sha_prefix(parts[3])
                branchcommit == branchcommit_of(branch, sha)
            IN  Return(StrV(format(fmt,
                                   [tag |-> tag, count |-> count, sha |-> sha,
                                    dirty |-> IF dirty THEN s_True ELSE s_False,
                                    branch |-> branch, version |-> ver,
                                    branchcommit |-> branchcommit])),
                       gitver.calls \o gitbranch.calls, <<>>)

\* mutant: the override is not looked up
version_override_ignored(slf) == None

\* self._package_meta.get("version")
version_override(slf) ==
    IF "version" \in DOMAIN slf._package_meta.v THEN slf._package_meta.v["version"] ELSE None

version(slf) ==
    IF slf._package_meta.t = "None"
    THEN Raise(Exc("AttributeError", "'NoneType' object has no attribute 'get'", NoCause),
               <<>>, <<>>)
    ELSE
    IF truthy(version_override(slf))
    THEN Return(version_override(slf), <<>>, <<>>)
    ELSE
    LET generated == generate_version(DefaultFmt)
    IN  IF generated.status = "raise"
        THEN Raise(Exc("Exception",
                       "Cannot generate package version from git tags. Add some tags or add version to Pipfile. Cannot continue.",
                       generated.exc), generated.calls, <<>>)
        ELSE generated

python_requires(slf) ==
    LET requires == getitem(slf._pipfile, "requires")
        python_version ==
            IF requires.status = "raise" THEN requires
            ELSE getitem(requires.value, "python_version")
    IN  IF python_version.status = "return"
        THEN Return(StrV(s_ge \o python_version.value.v \o s_lt4), <<>>, <<>>)
        ELSE IF python_version.exc.type = "KeyError"
             THEN Return(None, <<>>, <<"python_version">>)
             ELSE python_version

\* mutant: only the constraint that is exactly * is dropped
requirement_exact_star(pkg, ver) == pkg \o (IF ver = <<"*">> THEN <<>> ELSE ver)

\* if "*" in ver: ver = "", then f"{pkg}{ver}"
requirement(pkg, ver) == pkg \o (IF contains(ver, "*") THEN <<>> ELSE ver)

_generate_requires(slf) ==
    LET pipfile_reqs == getitem(slf._pipfile, "packages")
    IN  IF pipfile_reqs.status = "raise" THEN pipfile_reqs
        ELSE LET items == pipfile_reqs.value.v
             IN  Return(ListV([i \in 1..Len(items) |-> requirement(items[i].pkg, items[i].ver)]),
                        <<>>, <<>>)

install_requires(slf) == _generate_requires(slf)

\* find_packages(exclude=[...]) of setuptools
find_packages(found) == Return(ListV(found), <<"find_packages">>, <<>>)

\* the values of the dict display, in the order Python evaluates them
setup_items(slf, found) ==
    << [key |-> "name", out |-> name(slf)],
       [key |-> "version", out |-> version(slf)],
       [key |-> "description", out |-> description(slf)],
       [key |-> "long_description", out |-> long_description(slf)],
       [key |-> "long_description_content_type", out |-> Return(StrV(s_text_markdown), <<>>, <<>>)],
       [key |-> "url", out |-> url(slf)],
       [key |-> "author", out |-> author(slf)],
       [key |-> "packages", out |-> find_packages(found)],
       [key |-> "python_requires", out |-> python_requires(slf)],
       [key |-> "install_requires", out |-> install_requires(slf)] >>

RECURSIVE effects(_, _, _)
effects(items, n, field) ==
    IF n = 0 THEN <<>> ELSE effects(items, n - 1, field) \o items[n].out[field]

generate_setup(slf, found) ==
    LET items == setup_items(slf, found)
        raising == { i \in 1..Len(items) : items[i].out.status = "raise" }
    IN  IF raising = {}
        THEN Return(DictV([k \in { items[i].key : i \in 1..Len(items) } |->
                             (CHOOSE it \in { items[i] : i \in 1..Len(items) } : it.key = k).out.value]),
                    effects(items, Len(items), "calls"), effects(items, Len(items), "warnings"))
        ELSE LET first == CHOOSE i \in raising : \A j \in raising : i <= j
             IN  Raise(items[first].out.exc,
                       effects(items, first, "calls"), effects(items, first, "warnings"))

----------------------------------------------------------------------------
(* The caller: construction, property reads and calls; the working directory changing *)

Ran(op, out) == [op |-> op, out |-> out]

Init ==
    /\ Pipfile \in PipfileStates
    /\ README \in ReadmeStates
    /\ git_describe \in DescribeResults
    /\ git_branch \in BranchResults
    /\ self = NoInstance
    /\ result = Ran("none", Return(None, <<>>, <<>>))
    /\ current = TRUE

Environment == <<Pipfile, README, git_describe, git_branch>>

\* mutant: the failure to load is swallowed and the instance keeps the class attributes
IvyBuildTools__init__swallowing ==
    LET made == new_IvyBuildTools
    IN  /\ self' = IF made.status = "return" THEN made.value
                   ELSE [exists |-> TRUE, _pipfile |-> None, _package_meta |-> None]
        /\ result' = Ran("__init__", Return(None, <<>>, <<>>))
        /\ current' = TRUE
        /\ UNCHANGED Environment

\* bt = IvyBuildTools()
IvyBuildTools__init__ ==
    LET made == new_IvyBuildTools
    IN  /\ self' = IF made.status = "return" THEN made.value ELSE self
        /\ result' = Ran("__init__", IF made.status = "return"
                                     THEN Return(None, <<>>, <<>>) ELSE made)
        /\ current' = TRUE
        /\ UNCHANGED Environment

\* a property of an instance is read, or a method of it called
Read(op, out) ==
    /\ self.exists
    /\ result' = Ran(op, out)
    /\ current' = TRUE
    /\ UNCHANGED <<Environment, self>>

Read_name == Read("name", name(self))
Read_description == Read("description", description(self))
Read_long_description == Read("long_description", long_description(self))
\* mutant: a version once generated is kept
Read_version_cached ==
    Read("version", IF result.op = "version" /\ result.out.status = "return"
                    THEN result.out ELSE version(self))

Read_version == Read("version", version(self))
Read_author == Read("author", author(self))
Read_url == Read("url", url(self))
Read_python_requires == Read("python_requires", python_requires(self))
Read_install_requires == Read("install_requires", install_requires(self))
Call_generate_setup == \E found \in FoundPackages : Read("generate_setup", generate_setup(self, found))

\* commits, tags and edits of the working tree
GitDescribeChanges ==
    /\ \E d \in DescribeResults : d # git_describe /\ git_describe' = d
    /\ current' = FALSE
    /\ UNCHANGED <<Pipfile, README, git_branch, self, result>>

\* checkouts
GitBranchChanges ==
    /\ \E b \in BranchResults : b # git_branch /\ git_branch' = b
    /\ current' = FALSE
    /\ UNCHANGED <<Pipfile, README, git_describe, self, result>>

ReadmeChanges ==
    /\ \E r \in ReadmeStates : r # README /\ README' = r
    /\ current' = FALSE
    /\ UNCHANGED <<Pipfile, git_describe, git_branch, self, result>>

Next ==
    \/ IvyBuildTools__init__
    \/ Read_name
    \/ Read_description
    \/ Read_long_description
    \/ Read_version
    \/ Read_author
    \/ Read_url
    \/ Read_python_requires
    \/ Read_install_requires
    \/ Call_generate_setup
    \/ GitDescribeChanges
    \/ GitBranchChanges
    \/ ReadmeChanges

Spec == Init /\ [][Next]_vars

----------------------------------------------------------------------------
(* The claims *)

Meta == self._package_meta.v
Document == self._pipfile.v

\* the [package] section gives no version that Python takes as true
NoOverride ==
    /\ self.exists
    /\ "version" \in DOMAIN Meta => Meta["version"].v = <<>>

\* the last operation was `op`, and nothing changed around it since
Fresh(op) == current /\ result.op = op

Hyphens(s) == Cardinality({ i \in 1..Len(s) : s[i] = "-" })

s_describe_master == <<"v","1",".","2",".","3","-","0","-","g","a","b","c","d","e","f","1","\n">>
s_describe_feature == <<"v","1",".","2",".","3","-","2","-","g","a","b","c","d","e","f","1","\n">>
s_version_bcdef1 ==
    <<"v","1",".","2",".","3","-","f","e","a","t","u","r","e","-","x","-","b","c","d","e","f","1">>
s_version_abcdef1 ==
    <<"v","1",".","2",".","3","-","f","e","a","t","u","r","e","-","x","-","a","b","c","d","e","f","1">>

VersionResolutionMsg ==
    "Cannot generate package version from git tags. Add some tags or add version to Pipfile. Cannot continue."

\* the describe output is the 3 or 4 parts p joined by hyphens, and the branch is b
Described(p, b) ==
    /\ Len(p) \in {3, 4}
    /\ git_describe = Completed(join(p, "-") \o <<"\n">>)
    /\ git_branch = Completed(b \o <<"\n">>)

C1_PythonRequiresDefault ==
    result.op = "python_requires" =>
        IF "requires" \in DOMAIN Document /\ "python_version" \in DOMAIN Document["requires"].v
        THEN result.out =
                Return(StrV(<<">", "=">> \o Document["requires"].v["python_version"].v
                                \o <<",", " ", "<", "4">>), <<>>, <<>>)
        ELSE result.out = Return(StrV(s_default_requires), <<>>, <<"python_version">>)

\* C3 as the specification states it: whenever the [package] section gives a version, the
\* version property returns that value and runs no git command, whatever git would say.
C3_AsStated ==
    result.op = "version" /\ "version" \in DOMAIN Meta =>
        result.out = Return(Meta["version"], <<>>, <<>>)

\* C3, amended: whenever the [package] section gives a non-empty version, the version
\* property returns that value and runs no git command, whatever git would say.
C3_ExplicitVersionWins ==
    result.op = "version" /\ "version" \in DOMAIN Meta /\ Len(Meta["version"].v) > 0 =>
        result.out = Return(Meta["version"], <<>>, <<>>)

C3_Witness ==
    /\ Fresh("version")
    /\ "version" \in DOMAIN Meta /\ Len(Meta["version"].v) > 0
    /\ ~git_describe.ok
    /\ result.out.status = "return"

C5_PrimaryBranchVersionIsTag ==
    Fresh("version") /\ NoOverride =>
        /\ git_describe = Completed(s_describe_master) /\ git_branch = Completed(s_master \o <<"\n">>)
              => result.out = Return(StrV(<<"v", "1", ".", "2", ".", "3">>),
                                     <<gitver_command, gitbranch_command>>, <<>>)
        /\ \A p \in DescribeParts :
              Described(p, s_master) =>
                  /\ result.out.status = "return"
                  /\ result.out.value = StrV(p[1])

C5_Witness ==
    /\ Fresh("version") /\ NoOverride
    /\ Described(<<s_tag, <<"2">>, s_gsha, s_dirty>>, s_master)
    /\ result.out.value = StrV(s_tag)

\* C6: install_requires has one entry per dependency of the packages section, in its order:
\* the bare name when the constraint contains "*", the name followed by the constraint
\* otherwise.
C6_InstallRequires ==
    result.op = "install_requires" /\ "packages" \in DOMAIN Document =>
        LET deps == Document["packages"].v
            entries == result.out.value.v
        IN  /\ result.out.status = "return"
            /\ result.out.value.t = "list"
            /\ Len(entries) = Len(deps)
            /\ \A i \in 1..Len(deps) :
                  IF \E k \in 1..Len(deps[i].ver) : deps[i].ver[k] = "*"
                  THEN entries[i] = deps[i].pkg
                  ELSE entries[i] = deps[i].pkg \o deps[i].ver

C6_Witness ==
    /\ result.op = "install_requires"
    /\ result.out.status = "return"
    /\ result.out.value = ListV(<< <<"s", "i", "x", ">", "=", "1", ".", "0">>, <<"p", "i", "p">> >>)

\* C7: errors for required fields are per field: without package.name the name property
\* raises the missing-field error, and description, author and url each still return the
\* Pipfile's value when present.
C7_ErrorsArePerField ==
    /\ result.op = "name" /\ "name" \notin DOMAIN Meta =>
          result.out = Raise(Exc("Exception", "No package name specified in Pipfile. Cannot continue.",
                                 Exc("KeyError", "name", NoCause)), <<>>, <<>>)
    /\ \A k \in {"description", "author", "url"} :
          result.op = k /\ k \in DOMAIN Meta => result.out = Return(Meta[k], <<>>, <<>>)

C7_Witness ==
    /\ self.exists
    /\ "name" \notin DOMAIN Meta
    /\ result.op = "description"
    /\ result.out.status = "return"

\* C8: long_description never raises: the text when README.md is present, a warning and
\* None when it is not found, and no error whatever the state of the file.
C8_LongDescriptionNeverFails ==
    Fresh("long_description") =>
        /\ result.out.status = "return"
        /\ README.state = "present" => result.out.value = StrV(README.text)
        /\ README.state = "missing" =>
              result.out.value = None /\ result.out.warnings = <<"README.md">>

\* C9: construction raises when the Pipfile is missing or cannot be parsed and leaves no
\* instance; a property is only ever read on an instance that holds the loaded Pipfile.
C9_NoInstanceWithoutPipfile ==
    /\ Pipfile.state # "ok" =>
          /\ ~self.exists
          /\ result.op = "__init__" =>
                result.out.status = "raise" /\ result.out.exc.type = "FileNotFoundError"
    /\ result.op \notin {"none", "__init__"} =>
          /\ self.exists
          /\ Pipfile.state = "ok"
          /\ self._pipfile = Pipfile.doc

C9_Witness ==
    /\ Pipfile.state = "missing"
    /\ result.op = "__init__"
    /\ result.out.status = "raise"

\* the version the working tree gives now, from the parts the describe output was made of
VersionNow ==
    IF \E p \in DescribeParts, b \in Branches : Described(p, b)
    THEN LET pb == CHOOSE pb \in DescribeParts \X Branches : Described(pb[1], pb[2])
             p == pb[1]
             b == pb[2]
         IN  Return(StrV(p[1] \o (IF b = s_master THEN <<>>
                                  ELSE <<"-">> \o b \o <<"-">> \o Tail(p[3]))),
                    <<gitver_command, gitbranch_command>>, <<>>)
    ELSE Raise(Exc("Exception", VersionResolutionMsg, NoCause), <<>>, <<>>)

\* C10: the instance keeps the Pipfile it loaded, and a read answers from the Pipfile and
\* the working directory as they are at the read: with no override the version is derived
\* from what git says now, never from what it said at an earlier read.
C10_ReadsAreNotCached ==
    /\ self.exists =>
          /\ Pipfile.state = "ok"
          /\ self._pipfile = Pipfile.doc
          /\ self._package_meta = Pipfile.doc.v["package"]
    /\ Fresh("version") /\ NoOverride =>
          /\ result.out.status = VersionNow.status
          /\ result.out.value = VersionNow.value
    /\ Fresh("generate_setup") /\ NoOverride /\ result.out.status = "return" =>
          /\ result.out.value.v["version"] = VersionNow.value
          /\ result.out.value.v["long_description"] =
                (IF README.state = "present" THEN StrV(README.text) ELSE None)

C10_Witness ==
    /\ Fresh("version") /\ NoOverride
    /\ result.out.status = "return"
    /\ \E found \in FoundPackages :
          LET setup == generate_setup(self, found)
          IN  setup.status = "return" /\ setup.value.v["version"] = result.out.value

====
